---- MODULE Spec2Model ----
(***************************************************************************)
(* A model of tui-rs-tree-widget: TreeState (selection, opened set, scroll *)
(* offset), its navigation operations, and the window computation of       *)
(* Tree::render.  Identifiers are sequences of 0-based child indices, as   *)
(* in the source; TLA+ sequences are 1-based, so visible[i] of the source  *)
(* is visible[i + 1] here.                                                 *)
(***************************************************************************)
EXTENDS Integers, Sequences, FiniteSets, TLC

VARIABLES
    state,      \* the TreeState: [offset, opened, selected]
    items,      \* the caller's tree: a sequence of TreeItem
    panicked,   \* TRUE once an operation has panicked (the thread unwound)
    last,       \* history: the last operation, its argument, the TreeState before it
    pair        \* history: the opened set before an open/close or toggle/toggle pair

vars == <<state, items, panicked, last, pair>>

\* ---------------------------------------------------------------- bounds

\* The largest area height (row budget) a render pass is given.
MaxBudget == 3

\* The longest flat tree and the tallest item of the window specification.
MaxLen == 5

MaxHeight == 2

\* ------------------------------------------------------------ arithmetic

Min(a, b) == IF a <= b THEN a ELSE b

\* usize::saturating_sub
saturating_sub(a, b) == IF a >= b THEN a - b ELSE 0

\* usize::saturating_add (the values of the model stay far below usize::MAX)
saturating_add(a, b) == a + b

\* Option<usize>: None is the empty sequence, Some(i) is <<i>>.
None == <<>>

Some(i) == <<i>>

\* ------------------------------------------------------------- the tree

\* TreeItem::new_leaf; the element is modelled by the height of its text.
new_leaf(h) == [height |-> h, children |-> <<>>]

\* TreeItem::new
new(h, children) == [height |-> h, children |-> children]

\* TreeItem::height
height(item) == item.height

\* depth that counts the segments of the identifier.
depth_segments(entry) == Len(entry.identifier)

\* Flattened::depth
depth(entry) == Len(entry.identifier) - 1

\* flatten: pre-order; the children of a node are emitted iff the node's
\* identifier is in opened.  from is the 0-based index of the next sibling.
RECURSIVE flatten_internal(_, _, _, _)
flatten_internal(opened, nodes, current, from) ==
    IF from >= Len(nodes) THEN <<>>
    ELSE LET child_identifier == Append(current, from)
             item == nodes[from + 1]
             below == IF child_identifier \in opened
                      THEN flatten_internal(opened, item.children, child_identifier, 0)
                      ELSE <<>>
         IN  <<[identifier |-> child_identifier, item |-> item]>>
                 \o below
                 \o flatten_internal(opened, nodes, current, from + 1)

\* flatten that descends into every node, opened or not.
flatten_everything(opened, nodes) ==
    LET every == {<<>>} \cup {<<i>> : i \in 0 .. 2}
                     \cup {<<i, j>> : i, j \in 0 .. 2}
                     \cup {<<i, j, k>> : i, j, k \in 0 .. 2}
    IN  flatten_internal(every, nodes, <<>>, 0)

flatten(opened, nodes) == flatten_internal(opened, nodes, <<>>, 0)

\* get_without_leaf: the identifier without its last segment, and that segment.
get_identifier_without_leaf(identifier) ==
    LET length_without_leaf == saturating_sub(Len(identifier), 1)
    IN  [head |-> SubSeq(identifier, 1, length_without_leaf),
         tail |-> IF Len(identifier) > 0 THEN Some(identifier[Len(identifier)]) ELSE None]

\* Iterator::position over the identifiers of the flattened sequence.
RECURSIVE position_from(_, _, _)
position_from(visible, identifier, i) ==
    IF i >= Len(visible) THEN None
    ELSE IF visible[i + 1].identifier = identifier THEN Some(i)
    ELSE position_from(visible, identifier, i + 1)

position(visible, identifier) == position_from(visible, identifier, 0)

\* ------------------------------------------------------------ TreeState

\* TreeState::default
default_state == [offset |-> 0, opened |-> {}, selected |-> <<>>]

get_offset(st) == st.offset

get_all_opened(st) == st.opened

selected(st) == st.selected

\* select that never resets the offset.
select_keeps_offset(st, identifier) == [st EXCEPT !.selected = identifier]

select(st, identifier) ==
    [st EXCEPT !.selected = identifier,
               !.offset = IF identifier = <<>> THEN 0 ELSE @]

\* open without the test for the empty identifier.
open_any(st, identifier) ==
    [st |-> [st EXCEPT !.opened = @ \cup {identifier}],
     ret |-> identifier \notin st.opened]

open(st, identifier) ==
    IF identifier = <<>>
    THEN [st |-> st, ret |-> FALSE]
    ELSE [st |-> [st EXCEPT !.opened = @ \cup {identifier}],
          ret |-> identifier \notin st.opened]

\* close that reports the membership and forgets to remove.
close_keeps(st, identifier) ==
    [st |-> st, ret |-> identifier \in st.opened]

close(st, identifier) ==
    [st |-> [st EXCEPT !.opened = @ \ {identifier}],
     ret |-> identifier \in st.opened]

\* toggle that opens whatever the membership.
toggle_opens(st, identifier) == open(st, identifier).st

toggle(st, identifier) ==
    IF identifier \in st.opened
    THEN close(st, identifier).st
    ELSE open(st, identifier).st

toggle_selected(st) == toggle(st, selected(st))

\* close_all that resets the whole TreeState.
close_all_resets(st) == default_state

close_all(st) == [st EXCEPT !.opened = {}]

\* select_first with a 1-based index.
select_first_second(st) == select(st, <<1>>)

select_first(st) == select(st, <<0>>)

\* select_last that selects the last root, opened or not.
select_last_root(st, nodes) ==
    select(st, IF Len(nodes) > 0 THEN <<Len(nodes) - 1>> ELSE <<>>)

select_last(st, nodes) ==
    LET visible == flatten(get_all_opened(st), nodes)
        new_identifier == IF Len(visible) > 0
                          THEN visible[Len(visible)].identifier
                          ELSE <<>>
    IN  select(st, new_identifier)

\* key_up that wraps from the first entry to the last.
key_up_index_wrap(current_index, len) ==
    IF current_index = 0 THEN len - 1 ELSE current_index - 1

\* The closure of key_up: runs only when the selection was found.
key_up_index(current_index, len) ==
    Min(saturating_sub(current_index, 1), len - 1)

\* The closure of key_down.
key_down_index(current_index, len) ==
    Min(saturating_add(current_index, 1), len - 1)

\* visible[new_index] panics when new_index is out of bounds.
select_visible(st, visible, new_index) ==
    IF new_index < Len(visible)
    THEN [panic |-> FALSE, st |-> select(st, visible[new_index + 1].identifier)]
    ELSE [panic |-> TRUE, st |-> st]

\* key_up that starts from the last entry when the selection is not found.
key_up_from_last(st, nodes) ==
    LET visible == flatten(get_all_opened(st), nodes)
        current_index == position(visible, selected(st))
        new_index == IF current_index = None THEN saturating_sub(Len(visible), 1)
                     ELSE key_up_index(current_index[1], Len(visible))
    IN  select_visible(st, visible, new_index)

key_up(st, nodes) ==
    LET visible == flatten(get_all_opened(st), nodes)
        current_index == position(visible, selected(st))
        new_index == IF current_index = None THEN 0
                     ELSE key_up_index(current_index[1], Len(visible))
    IN  select_visible(st, visible, new_index)

key_down(st, nodes) ==
    LET visible == flatten(get_all_opened(st), nodes)
        current_index == position(visible, selected(st))
        new_index == IF current_index = None THEN 0
                     ELSE key_down_index(current_index[1], Len(visible))
    IN  select_visible(st, visible, new_index)

\* key_left that also moves to the parent when it closed the selection.
key_left_ascends(st) ==
    LET closed == close(st, selected(st))
    IN  select(closed.st, get_identifier_without_leaf(selected(st)).head)

\* key_left that never moves to the parent.
key_left_stays(st) == close(st, selected(st)).st

key_left(st) ==
    LET closed == close(st, selected(st))
    IN  IF ~closed.ret
        THEN select(closed.st, get_identifier_without_leaf(selected(st)).head)
        ELSE closed.st

key_right(st) == open(st, selected(st)).st

\* ---------------------------------------------------------- Tree::render

\* The index render treats as selected: 0 when nothing is selected or the
\* selection is not in the flattened sequence.
selected_index_of(st, visible) ==
    IF st.selected = <<>> THEN 0
    ELSE LET found == position(visible, st.selected)
         IN  IF found = None THEN 0 ELSE found[1]

\* A window that always starts at the selection.
first_start_recentre(offset, selected_index) == selected_index

\* A window that starts at the stored offset, wherever the selection is.
first_start_keeps_offset(offset, selected_index) == offset

\* A window that starts one entry higher every frame.
first_start_drifts(offset, selected_index) ==
    saturating_sub(Min(offset, selected_index), 1)

\* let mut start = state.offset.min(selected_index);
first_start(offset, selected_index) == Min(offset, selected_index)

\* An off-by-one budget test.
exceeds_by_two(total, available_height) == total > available_height + 1

\* if height + item.item.height() > available_height { break; }
exceeds(total, available_height) == total > available_height

\* The for loop over visible.iter().skip(start): end and height grow while
\* the next item still fits.
RECURSIVE window_grow(_, _, _, _)
window_grow(visible, available_height, end, total) ==
    IF end >= Len(visible) THEN [end |-> end, height |-> total]
    ELSE IF exceeds(total + height(visible[end + 1].item), available_height)
    THEN [end |-> end, height |-> total]
    ELSE window_grow(visible, available_height, end + 1,
                     total + height(visible[end + 1].item))

\* while height > available_height { height -= visible[start]; start += 1; }
RECURSIVE window_evict(_, _, _, _)
window_evict(visible, available_height, start, total) ==
    IF exceeds(total, available_height)
    THEN window_evict(visible, available_height, start + 1,
                      saturating_sub(total, height(visible[start + 1].item)))
    ELSE [start |-> start, height |-> total]

\* while selected_index >= end { absorb visible[end]; evict from the front }
RECURSIVE window_slide(_, _, _, _, _, _)
window_slide(visible, available_height, selected_index, start, end, total) ==
    IF selected_index >= end
    THEN LET absorbed == saturating_add(total, height(visible[end + 1].item))
             evicted == window_evict(visible, available_height, start, absorbed)
         IN  window_slide(visible, available_height, selected_index,
                          evicted.start, end + 1, evicted.height)
    ELSE [start |-> start, end |-> end]

compute_window(visible, available_height, offset, selected_index) ==
    LET start == first_start(offset, selected_index)
        grown == window_grow(visible, available_height, start, 0)
    IN  window_slide(visible, available_height, selected_index,
                     start, grown.end, grown.height)

\* The state part of Tree::render: the early returns, the window, and
\* state.offset = start.  drawn is FALSE when render returned early.
render(st, nodes, area) ==
    LET visible == flatten(get_all_opened(st), nodes)
        skipped == [st |-> st, drawn |-> FALSE, start |-> 0, end |-> 0]
    IN  IF area.width < 1 \/ area.height < 1 THEN skipped
        ELSE IF Len(visible) = 0 THEN skipped
        ELSE LET window == compute_window(visible, area.height, st.offset,
                                          selected_index_of(st, visible))
             IN  [st |-> [st EXCEPT !.offset = window.start],
                  drawn |-> TRUE, start |-> window.start, end |-> window.end]

\* ------------------------------------------------------- the trees checked

\* A group with two children followed by a leaf, every item one row high.
ItemsUnit ==
    <<new(1, <<new_leaf(1), new_leaf(1)>>), new_leaf(1)>>

\* The same shape with items of several heights.
ItemsMixed ==
    <<new(2, <<new_leaf(3), new_leaf(1)>>), new_leaf(2)>>

\* Two leaves: the identifiers of children are stale on this tree.
ItemsSmall == <<new_leaf(2), new_leaf(1)>>

\* A single group: the last entry is a child when the group is open.
ItemsGroup == <<new(1, <<new_leaf(2), new_leaf(1)>>)>>

ItemsChoices == {<<>>, ItemsUnit, ItemsMixed, ItemsSmall, ItemsGroup}

\* The identifiers the operations are called with: none, and every node of
\* the trees above.
Identifiers == {<<>>, <<0>>, <<1>>, <<0, 0>>, <<0, 1>>}

\* The areas a frame is rendered into: every height with a column to draw
\* in, and one area without any column.
Areas ==
    [width : {1}, height : 0 .. MaxBudget] \cup {[width |-> 0, height |-> MaxBudget]}

NoArea == [width |-> 0, height |-> 0]

\* Leaves 1 .. MaxHeight rows high.
Leaves == {new_leaf(h) : h \in 1 .. MaxHeight}

\* Every flat tree of fewer than MaxLen leaves, and the tree of MaxLen leaves
\* of one row each.
FlatItems ==
    UNION {[1 .. n -> Leaves] : n \in 1 .. MaxLen - 1}
        \cup [1 .. MaxLen -> {new_leaf(1)}]

RootIdentifiers == {<<>>} \cup {<<i>> : i \in 0 .. MaxLen - 1}

\* -------------------------------------------------------------- history

NoPair == [kind |-> "none", opened |-> {}]

\* The opened set before the previous operation, when the previous and the
\* present operation are open(id) then close(id), toggle(id) twice,
\* toggle_selected twice, or select_last then key_down.
pair_after(op, arg) ==
    IF last.op = "open" /\ op = "close" /\ last.arg = arg
    THEN [kind |-> "open_close", opened |-> last.pre.opened]
    ELSE IF last.op = "toggle" /\ op = "toggle" /\ last.arg = arg
    THEN [kind |-> "toggle_toggle", opened |-> last.pre.opened]
    ELSE IF last.op = "toggle_selected" /\ op = "toggle_selected"
    THEN [kind |-> "toggle_selected_twice", opened |-> last.pre.opened]
    ELSE IF last.op = "select_last" /\ op = "key_down"
    THEN [kind |-> "select_last_key_down", opened |-> last.pre.opened]
    ELSE NoPair

\* An operation that returned: the new TreeState and the history of the call.
Returns(op, arg, st, ret) ==
    /\ state' = st
    /\ panicked' = FALSE
    /\ last' = [op |-> op, arg |-> arg, pre |-> state, ret |-> ret,
                area |-> NoArea, drawn |-> FALSE, start |-> 0, end |-> 0]
    /\ pair' = pair_after(op, arg)
    /\ UNCHANGED items

\* key_up and key_down: they return or panic.
Indexes(op, result) ==
    /\ state' = result.st
    /\ panicked' = result.panic
    /\ last' = [op |-> op, arg |-> <<>>, pre |-> state, ret |-> FALSE,
                area |-> NoArea, drawn |-> FALSE, start |-> 0, end |-> 0]
    /\ pair' = pair_after(op, <<>>)
    /\ UNCHANGED items

\* -------------------------------------------------------------- actions

Init ==
    /\ state = default_state
    /\ items \in ItemsChoices
    /\ panicked = FALSE
    /\ last = [op |-> "default", arg |-> <<>>, pre |-> default_state, ret |-> FALSE,
               area |-> NoArea, drawn |-> FALSE, start |-> 0, end |-> 0]
    /\ pair = NoPair

Select(identifier) ==
    /\ ~panicked
    /\ Returns("select", identifier, select(state, identifier), FALSE)

Open(identifier) ==
    /\ ~panicked
    /\ LET r == open(state, identifier) IN Returns("open", identifier, r.st, r.ret)

Close(identifier) ==
    /\ ~panicked
    /\ LET r == close(state, identifier) IN Returns("close", identifier, r.st, r.ret)

Toggle(identifier) ==
    /\ ~panicked
    /\ Returns("toggle", identifier, toggle(state, identifier), FALSE)

ToggleSelected ==
    /\ ~panicked
    /\ Returns("toggle_selected", <<>>, toggle_selected(state), FALSE)

CloseAll ==
    /\ ~panicked
    /\ Returns("close_all", <<>>, close_all(state), FALSE)

SelectFirst ==
    /\ ~panicked
    /\ Returns("select_first", <<>>, select_first(state), FALSE)

SelectLast ==
    /\ ~panicked
    /\ Returns("select_last", <<>>, select_last(state, items), FALSE)

KeyUp ==
    /\ ~panicked
    /\ Indexes("key_up", key_up(state, items))

KeyDown ==
    /\ ~panicked
    /\ Indexes("key_down", key_down(state, items))

KeyLeft ==
    /\ ~panicked
    /\ Returns("key_left", <<>>, key_left(state), FALSE)

KeyRight ==
    /\ ~panicked
    /\ Returns("key_right", <<>>, key_right(state), FALSE)

\* One frame: Tree::new(items) rendered into area with the TreeState.
Render(area) ==
    /\ ~panicked
    /\ LET r == render(state, items, area)
       IN  /\ state' = r.st
           /\ last' = [op |-> "render", arg |-> <<>>, pre |-> state, ret |-> FALSE,
                       area |-> area, drawn |-> r.drawn,
                       start |-> r.start, end |-> r.end]
    /\ pair' = NoPair
    /\ UNCHANGED <<items, panicked>>

\* The caller owns the tree and may hand the next frame another one.
SetItems(nodes) ==
    /\ ~panicked
    /\ nodes # items
    /\ items' = nodes
    /\ last' = [op |-> "set_items", arg |-> <<>>, pre |-> state, ret |-> FALSE,
                area |-> NoArea, drawn |-> FALSE, start |-> 0, end |-> 0]
    /\ pair' = NoPair
    /\ UNCHANGED <<state, panicked>>

Next ==
    \/ \E identifier \in Identifiers : Select(identifier)
    \/ \E identifier \in Identifiers : Open(identifier)
    \/ \E identifier \in Identifiers : Close(identifier)
    \/ \E identifier \in Identifiers : Toggle(identifier)
    \/ ToggleSelected
    \/ CloseAll
    \/ SelectFirst
    \/ SelectLast
    \/ KeyUp
    \/ KeyDown
    \/ KeyLeft
    \/ KeyRight
    \/ \E area \in Areas : Render(area)
    \/ \E nodes \in ItemsChoices : SetItems(nodes)

Spec == Init /\ [][Next]_vars

\* Every entry of the flattened sequence is 1 .. area.height rows high, or
\* render returns before it looks at them.
EntriesFit(area) ==
    \/ area.width < 1
    \/ area.height < 1
    \/ LET visible == flatten(get_all_opened(state), items)
       IN  \A i \in 1 .. Len(visible) : height(visible[i].item) \in 1 .. area.height

\* A frame whose entries all fit the area.
RenderFitting(area) == EntriesFit(area) /\ Render(area)

\* Every operation, with frames of fitting entries only.
NextFits ==
    \/ \E identifier \in Identifiers : Select(identifier)
    \/ \E identifier \in Identifiers : Open(identifier)
    \/ \E identifier \in Identifiers : Close(identifier)
    \/ \E identifier \in Identifiers : Toggle(identifier)
    \/ ToggleSelected
    \/ CloseAll
    \/ SelectFirst
    \/ SelectLast
    \/ KeyUp
    \/ KeyDown
    \/ KeyLeft
    \/ KeyRight
    \/ \E area \in Areas : RenderFitting(area)
    \/ \E nodes \in ItemsChoices : SetItems(nodes)

SpecFits == Init /\ [][NextFits]_vars

\* flatten on its own: trees three levels deep, any set of opened
\* identifiers (stale ones and leaves included), then the operations that
\* flatten the tree.
ItemsScenario ==
    <<new(1, <<new_leaf(1), new(1, <<new_leaf(1)>>)>>)>>

ItemsDeep ==
    <<new_leaf(1), new(2, <<new(1, <<new_leaf(1), new_leaf(2)>>), new_leaf(1)>>)>>

DeepItems == {<<>>, ItemsScenario, ItemsDeep}

DeepIdentifiers ==
    {<<0>>, <<1>>, <<0, 1>>, <<0, 1, 0>>, <<1, 0>>, <<1, 0, 0>>, <<2>>}

InitFlatten ==
    /\ items \in DeepItems
    /\ state \in [offset : {0}, opened : SUBSET DeepIdentifiers, selected : {<<>>}]
    /\ panicked = FALSE
    /\ last = [op |-> "default", arg |-> <<>>, pre |-> default_state, ret |-> FALSE,
               area |-> NoArea, drawn |-> FALSE, start |-> 0, end |-> 0]
    /\ pair = NoPair

NextFlatten ==
    \/ SelectLast
    \/ KeyUp
    \/ KeyDown

SpecFlatten == InitFlatten /\ [][NextFlatten]_vars

\* The command surface on a fixed tree that is not empty.
CommandItems ==
    {ItemsUnit, ItemsMixed, ItemsSmall, ItemsGroup, ItemsScenario, ItemsDeep}

InitCommands ==
    /\ state = default_state
    /\ items \in CommandItems
    /\ panicked = FALSE
    /\ last = [op |-> "default", arg |-> <<>>, pre |-> default_state, ret |-> FALSE,
               area |-> NoArea, drawn |-> FALSE, start |-> 0, end |-> 0]
    /\ pair = NoPair

NextCommands ==
    \/ SelectFirst
    \/ SelectLast
    \/ KeyUp
    \/ KeyDown
    \/ KeyLeft
    \/ KeyRight
    \/ ToggleSelected

SpecCommands == InitCommands /\ [][NextCommands]_vars

\* The window computation on its own: any flat tree, any stored offset, any
\* root selected (or none, or a stale one), then render passes.
InitWindow ==
    /\ items \in FlatItems
    /\ state \in [offset : 0 .. MaxLen, opened : {{}}, selected : RootIdentifiers]
    /\ panicked = FALSE
    /\ last = [op |-> "default", arg |-> <<>>, pre |-> default_state, ret |-> FALSE,
               area |-> NoArea, drawn |-> FALSE, start |-> 0, end |-> 0]
    /\ pair = NoPair

\* The window is computed only for an area with a column and a row.
NextWindow == \E area \in [width : {1}, height : 1 .. MaxBudget] : Render(area)

SpecWindow == InitWindow /\ [][NextWindow]_vars

\* ------------------------------------------------------------- claims

\* The flattened sequence the last operation worked on (no operation of
\* TreeState or render changes the tree, and render and the key operations
\* leave the opened set alone).
Shown == flatten(last.pre.opened, items)

\* The index the last render pass treated as selected.
ShownIndex == selected_index_of(last.pre, Shown)

\* The rows taken by visible[from .. to), 0-based.
RECURSIVE rows(_, _, _)
rows(visible, from, to) ==
    IF from >= to THEN 0
    ELSE height(visible[from + 1].item) + rows(visible, from + 1, to)

Rendered == last.op = "render" /\ last.drawn

Resolves == position(Shown, last.pre.selected) # None

\* Every entry of the flattened sequence is lo .. hi rows high.
HeightsWithin(lo, hi) ==
    \A i \in 1 .. Len(Shown) : height(Shown[i].item) \in lo .. hi

\* C1: after a render pass over a non-empty sequence with a budget >= 1 and
\* a selection that resolves to index s, the window holds s (start <= s < end)
\* and the stored offset is start and is <= s.
C1_SelectionInWindow ==
    (Rendered /\ last.area.height >= 1 /\ Resolves) =>
        /\ last.start <= ShownIndex
        /\ ShownIndex < last.end
        /\ state.offset = last.start
        /\ state.offset <= ShownIndex

\* C2: every navigation operation completes; none panics.
C2_OperationsTotal == ~panicked

\* C3: when the selected entry alone is taller than the budget, the window
\* is exactly that entry: start = s and end = s + 1.
C3_TallSelectionAlone ==
    (Rendered /\ Resolves /\ height(Shown[ShownIndex + 1].item) > last.area.height) =>
        /\ last.start = ShownIndex
        /\ last.end = ShownIndex + 1

\* C4: when every entry is between 1 row and the budget high, the rows of
\* the window visible[start .. end) do not exceed the budget.
C4_WindowFitsBudget ==
    (Rendered /\ HeightsWithin(1, last.area.height)) =>
        rows(Shown, last.start, last.end) <= last.area.height

\* C4's case: entries of different heights, a window of several entries that
\* fills the budget, and entries left below it.
C4_Witness ==
    /\ Rendered
    /\ HeightsWithin(1, last.area.height)
    /\ last.end - last.start >= 2
    /\ last.end < Len(Shown)
    /\ rows(Shown, last.start, last.end) = last.area.height
    /\ \E i \in last.start + 1 .. last.end : height(Shown[i].item) = 2

\* visible[i ..= s] fits the budget of the last render pass.
FitsFrom(i) == rows(Shown, i, ShownIndex + 1) <= last.area.height

\* C5: with every entry at most the budget high, start is the smallest index
\* i >= min(prevOffset, s) for which visible[i ..= s] fits the budget; so the
\* window stays at prevOffset when that fits, the selection is the last entry
\* of the window when it lay below, and five entries of one row, budget 3,
\* prevOffset 0 and selection 4 give (2, 5).
C5_MinimalMovement ==
    (Rendered /\ HeightsWithin(0, last.area.height)) =>
        LET s == ShownIndex
            lowest == Min(last.pre.offset, s)
        IN  /\ lowest <= last.start
            /\ last.start <= s
            /\ FitsFrom(last.start)
            /\ \A i \in lowest .. last.start - 1 : ~FitsFrom(i)
            /\ (last.pre.offset <= s /\ FitsFrom(last.pre.offset))
                   => last.start = last.pre.offset
            /\ ~FitsFrom(lowest) => last.end = s + 1
            /\ (/\ Len(Shown) = 5
                /\ HeightsWithin(1, 1)
                /\ last.area.height = 3
                /\ last.pre.offset = 0
                /\ s = 4) => (last.start = 2 /\ last.end = 5)

\* C5's case: five entries of one row, budget 3, prevOffset 0, selection 4.
C5_Witness ==
    /\ Rendered
    /\ Len(Shown) = 5
    /\ HeightsWithin(1, 1)
    /\ last.area.height = 3
    /\ last.pre.offset = 0
    /\ last.pre.selected = <<4>>
    /\ last.start = 2
    /\ last.end = 5

\* C6: on a non-empty sequence with the selection found at index i, key_down
\* at the last entry and key_up at the first leave the selection unchanged;
\* otherwise key_up selects entry i - 1 and key_down entry i + 1.
C6_ClampedMoves ==
    (last.op \in {"key_up", "key_down"} /\ Len(Shown) > 0 /\ Resolves) =>
        LET i == position(Shown, last.pre.selected)[1]
        IN  /\ ~panicked
            /\ (last.op = "key_down" /\ i = Len(Shown) - 1)
                   => state.selected = last.pre.selected
            /\ (last.op = "key_up" /\ i = 0)
                   => state.selected = last.pre.selected
            /\ (last.op = "key_down" /\ i < Len(Shown) - 1)
                   => state.selected = Shown[i + 2].identifier
            /\ (last.op = "key_up" /\ i > 0)
                   => state.selected = Shown[i].identifier

\* C6's case: key_up on the first of several entries.
C6_Witness ==
    /\ last.op = "key_up"
    /\ Len(Shown) >= 3
    /\ position(Shown, last.pre.selected) = Some(0)
    /\ state.selected = last.pre.selected

\* C7: on a non-empty sequence, key_up and key_down with no selection, or
\* with one that is not in the flattened sequence, select the first entry.
C7_UnresolvedSelectsFirst ==
    (last.op \in {"key_up", "key_down"} /\ Len(Shown) > 0 /\ ~Resolves) =>
        /\ ~panicked
        /\ state.selected = Shown[1].identifier

\* C7's case: key_up with the selection hidden under a collapsed parent.
C7_Witness ==
    /\ last.op = "key_up"
    /\ items = ItemsUnit
    /\ last.pre.selected = <<0, 1>>
    /\ <<0>> \notin last.pre.opened
    /\ state.selected = <<0>>

\* The identifier without its last segment; the empty one stays empty.
ParentOf(identifier) ==
    IF Len(identifier) <= 1 THEN <<>>
    ELSE [i \in 1 .. Len(identifier) - 1 |-> identifier[i]]

\* C8: key_left removes an opened selection from the opened set and keeps
\* the selection; otherwise it keeps the opened set and selects the parent.
C8_KeyLeft ==
    (last.op = "key_left") =>
        IF last.pre.selected \in last.pre.opened
        THEN /\ state.opened = last.pre.opened \ {last.pre.selected}
             /\ state.selected = last.pre.selected
        ELSE /\ state.opened = last.pre.opened
             /\ state.selected = ParentOf(last.pre.selected)

\* C8's case: key_left on an opened selection while others are opened too.
C8_Witness ==
    /\ last.op = "key_left"
    /\ last.pre.selected = <<0>>
    /\ last.pre.opened = {<<0>>, <<0, 1>>}
    /\ state.opened = {<<0, 1>>}
    /\ state.selected = <<0>>

\* C9 as stated: open(id) then close(id), id non-empty, leaves the opened set
\* as it was before the two calls.
C9_OpenCloseRestores ==
    (pair.kind = "open_close" /\ last.arg # <<>>) =>
        state.opened = pair.opened

\* C9 as amended: open(id) then close(id), id non-empty, leaves the opened set
\* as it was without id; it is unchanged iff id was not opened before.
C9_OpenCloseRemoves ==
    (pair.kind = "open_close" /\ last.arg # <<>>) =>
        /\ state.opened = pair.opened \ {last.arg}
        /\ (state.opened = pair.opened) <=> (last.arg \notin pair.opened)

\* C9's case: the pair on an identifier that was opened, beside another.
C9_Witness ==
    /\ pair.kind = "open_close"
    /\ last.arg = <<0>>
    /\ pair.opened = {<<0>>, <<1>>}
    /\ state.opened = {<<1>>}

\* C10: toggle(id) twice, for any id, and toggle_selected twice, leave the
\* opened set as it was.
C10_ToggleTwice ==
    (pair.kind \in {"toggle_toggle", "toggle_selected_twice"}) =>
        state.opened = pair.opened

\* C10's case: toggle_selected twice on an opened selection.
C10_Witness ==
    /\ pair.kind = "toggle_selected_twice"
    /\ state.selected = <<0>>
    /\ pair.opened = {<<0>>, <<0, 0>>}
    /\ state.opened = pair.opened

\* C11: the empty identifier is never opened: open(empty) returns false and
\* changes nothing, toggle, toggle_selected and key_right with an empty
\* identifier or selection change nothing; for a non-empty id open returns
\* true iff id was not opened and close returns true iff it was.
C11_EmptyNeverOpened ==
    /\ <<>> \notin state.opened
    /\ (last.op = "open" /\ last.arg = <<>>) => (~last.ret /\ state = last.pre)
    /\ (last.op = "toggle" /\ last.arg = <<>>) => state = last.pre
    /\ (last.op \in {"toggle_selected", "key_right"} /\ last.pre.selected = <<>>)
           => state = last.pre
    /\ (last.op = "open" /\ last.arg # <<>>)
           => (last.ret <=> last.arg \notin last.pre.opened)
    /\ (last.op = "close" /\ last.arg # <<>>)
           => (last.ret <=> last.arg \in last.pre.opened)

\* C11's case: open(empty) while other identifiers are opened.
C11_Witness ==
    /\ last.op = "open"
    /\ last.arg = <<>>
    /\ ~last.ret
    /\ state.opened = {<<0>>, <<1>>}

\* C12: when every frame's entries are between 1 row and the budget high, an
\* empty selection implies offset = 0 in every reachable state.
C12_EmptySelectionOffsetZero ==
    state.selected = <<>> => state.offset = 0

\* C12's case: key_left from a root-level selection resets a scrolled offset.
C12_Witness ==
    /\ last.op = "key_left"
    /\ Len(last.pre.selected) = 1
    /\ last.pre.offset > 0
    /\ state.selected = <<>>
    /\ state.offset = 0

\* The identifiers of the nodes of a tree.
RECURSIVE node_ids(_, _)
node_ids(nodes, current) ==
    UNION {{Append(current, i - 1)}
               \cup node_ids(nodes[i].children, Append(current, i - 1))
           : i \in 1 .. Len(nodes)}

\* The node an identifier of the tree names.
RECURSIVE item_at(_, _)
item_at(nodes, identifier) ==
    IF Len(identifier) = 1 THEN nodes[identifier[1] + 1]
    ELSE item_at(nodes[identifier[1] + 1].children, Tail(identifier))

\* The identifiers of the proper ancestors of a node.
ProperAncestors(identifier) ==
    {SubSeq(identifier, 1, k) : k \in 1 .. Len(identifier) - 1}

\* a comes before b in pre-order: a is an ancestor of b, or at the first
\* segment where they differ a has the smaller child index.
PreOrderBefore(a, b) ==
    \/ Len(a) < Len(b) /\ SubSeq(b, 1, Len(a)) = a
    \/ \E k \in 1 .. Min(Len(a), Len(b)) :
           /\ SubSeq(a, 1, k - 1) = SubSeq(b, 1, k - 1)
           /\ a[k] < b[k]

\* The flattened sequence of the present state.
Flat == flatten(state.opened, items)

FlatIds == [i \in 1 .. Len(Flat) |-> Flat[i].identifier]

FlatDepths == [i \in 1 .. Len(Flat) |-> depth(Flat[i])]

\* C13: flatten emits exactly the nodes whose proper ancestors are all opened
\* (so every root), each once, in pre-order, each with its path identifier and
\* its node; opened identifiers that name no node have no effect.
C13_FlattenVisibleNodes ==
    /\ {FlatIds[i] : i \in 1 .. Len(Flat)}
           = {id \in node_ids(items, <<>>) : ProperAncestors(id) \subseteq state.opened}
    /\ \A i, j \in 1 .. Len(Flat) : i < j => PreOrderBefore(FlatIds[i], FlatIds[j])
    /\ \A i \in 1 .. Len(Flat) : Flat[i].item = item_at(items, FlatIds[i])
    /\ Flat = flatten(state.opened \cap node_ids(items, <<>>), items)

\* C13's case: a collapsed root hides a child that is opened itself and whose
\* parent is opened, beside an opened identifier that names no node.
C13_Witness ==
    /\ items = ItemsScenario
    /\ state.opened = {<<0, 1>>, <<0, 1, 0>>, <<2>>}
    /\ last.op = "select_last"
    /\ FlatIds = <<<<0>>>>
    /\ state.selected = <<0>>

\* C14 as stated: R with children a and b, b with child c: nothing opened
\* gives three entries of depths 0, 1, 1; with [1] opened there are four, the
\* last of depth 2 and identifier [1, 0].
C14_ScenarioAsStated ==
    items = ItemsScenario =>
        /\ state.opened = {} => FlatDepths = <<0, 1, 1>>
        /\ state.opened = {<<1>>} =>
               /\ Len(Flat) = 4
               /\ FlatDepths[4] = 2
               /\ FlatIds[4] = <<1, 0>>

\* C14 as amended: nothing opened gives [R]; with R's identifier [0] opened
\* [R, a, b] of depths 0, 1, 1; with b's identifier [0, 1] opened as well
\* [R, a, b, c], c of depth 2 and identifier [0, 1, 0].
C14_ScenarioA ==
    items = ItemsScenario =>
        /\ state.opened = {} => (FlatIds = <<<<0>>>> /\ FlatDepths = <<0>>)
        /\ state.opened = {<<0>>} =>
               /\ FlatIds = <<<<0>>, <<0, 0>>, <<0, 1>>>>
               /\ FlatDepths = <<0, 1, 1>>
        /\ state.opened = {<<0>>, <<0, 1>>} =>
               /\ FlatIds = <<<<0>>, <<0, 0>>, <<0, 1>>, <<0, 1, 0>>>>
               /\ FlatDepths = <<0, 1, 1, 2>>

\* C14's case: R and b opened, and select_last has selected c.
C14_Witness ==
    /\ items = ItemsScenario
    /\ state.opened = {<<0>>, <<0, 1>>}
    /\ last.op = "select_last"
    /\ state.selected = <<0, 1, 0>>

\* The last entry of the flattened sequence, found by descending from the
\* last root through last children while the node is opened and has children.
RECURSIVE deepest_last(_, _, _)
deepest_last(opened, nodes, current) ==
    LET identifier == Append(current, Len(nodes) - 1)
        item == nodes[Len(nodes)]
    IN  IF identifier \in opened /\ Len(item.children) > 0
        THEN deepest_last(opened, item.children, identifier)
        ELSE identifier

\* C15: select_last selects the last entry of the flattened sequence (the
\* deepest last descendant through opened nodes), or nothing, with offset 0,
\* when the tree is empty; key_down right after select_last on a non-empty
\* tree leaves the selection unchanged.
C15_SelectLast ==
    /\ (last.op = "select_last") =>
           IF Len(items) = 0
           THEN state.selected = <<>> /\ state.offset = 0
           ELSE /\ state.selected = Shown[Len(Shown)].identifier
                /\ state.selected = deepest_last(last.pre.opened, items, <<>>)
    /\ (pair.kind = "select_last_key_down" /\ Len(items) > 0) =>
           /\ ~panicked
           /\ state.selected = last.pre.selected

\* C15's case: key_down after select_last had selected the last child of an
\* opened last root.
C15_Witness ==
    /\ pair.kind = "select_last_key_down"
    /\ items = ItemsGroup
    /\ <<0>> \in state.opened
    /\ last.pre.selected = <<0, 1>>
    /\ state.selected = <<0, 1>>

\* C16: on a non-empty tree, using only the command surface, the selection is
\* empty or the identifier of an entry of the present flattened sequence.
C16_SelectionVisible ==
    \/ state.selected = <<>>
    \/ position(Flat, state.selected) # None

\* C16's case: key_left has closed the selected root while its child is
\* still opened.
C16_Witness ==
    /\ items = ItemsScenario
    /\ last.op = "key_left"
    /\ last.pre.opened = {<<0>>, <<0, 1>>}
    /\ state.opened = {<<0, 1>>}
    /\ state.selected = <<0>>

\* C17: select_first, select_last, key_up and key_down keep the opened set;
\* open, close, toggle, toggle_selected, close_all and key_right keep the
\* selection and the offset; select of a non-empty id keeps the offset and the
\* opened set; no operation of TreeState changes the tree; render changes
\* only the offset.
C17_FrameEffects ==
    [][/\ last'.op \in {"select_first", "select_last", "key_up", "key_down"}
              => state'.opened = state.opened
       /\ last'.op \in {"open", "close", "toggle", "toggle_selected",
                        "close_all", "key_right"}
              => (state'.selected = state.selected /\ state'.offset = state.offset)
       /\ (last'.op = "select" /\ last'.arg # <<>>)
              => (state'.offset = state.offset /\ state'.opened = state.opened)
       /\ last'.op \in {"select", "open", "close", "toggle", "toggle_selected",
                        "close_all", "select_first", "select_last", "key_up",
                        "key_down", "key_left", "key_right"}
              => items' = items
       /\ last'.op = "render"
              => /\ state'.selected = state.selected
                 /\ state'.opened = state.opened
                 /\ items' = items]_vars

\* C17's case: close_all on a scrolled state with a selection.
C17_Witness ==
    /\ last.op = "close_all"
    /\ last.pre.opened # {}
    /\ last.pre.offset > 0
    /\ last.pre.selected # <<>>
    /\ state = [last.pre EXCEPT !.opened = {}]

\* key_left n times in a row.
RECURSIVE key_left_times(_, _)
key_left_times(st, n) ==
    IF n = 0 THEN st ELSE key_left_times(key_left(st), n - 1)

\* C18: each key_left on a selection either removes it from the opened set
\* or drops its last segment; from a selection of length n >= 1, 2n calls of
\* key_left in a row end with no selection and offset 0, and one more
\* key_left changes nothing.
C18_KeyLeftReachesEmpty ==
    /\ (last.op = "key_left" /\ last.pre.selected # <<>>) =>
           \/ /\ last.pre.selected \in last.pre.opened
              /\ state.opened = last.pre.opened \ {last.pre.selected}
              /\ state.selected = last.pre.selected
           \/ /\ last.pre.selected \notin last.pre.opened
              /\ state.opened = last.pre.opened
              /\ Len(state.selected) = Len(last.pre.selected) - 1
    /\ (state.selected # <<>>) =>
           LET reached == key_left_times(state, 2 * Len(state.selected))
           IN  /\ reached.selected = <<>>
               /\ reached.offset = 0
               /\ key_left(reached) = reached
    /\ (last.op = "key_left" /\ last.pre.selected = <<>> /\ last.pre.offset = 0)
           => state = last.pre

\* C18's case: key_left has closed a scrolled selection of length 2 whose
\* parent is opened too, so all 2n calls are needed.
C18_Witness ==
    /\ last.op = "key_left"
    /\ last.pre.selected = <<0, 1>>
    /\ last.pre.opened = {<<0>>, <<0, 1>>}
    /\ last.pre.offset > 0
    /\ state.selected = <<0, 1>>
    /\ state.opened = {<<0>>}
    /\ key_left_times(state, 2).selected = <<0>>
    /\ key_left_times(state, 3).selected = <<>>

\* C19: in a render pass over a non-empty sequence, with no selection or one
\* that matches no entry, and a first entry that fits the budget, the window
\* starts at index 0 whatever the offset was, and the stored offset is 0; with
\* entries that fit, no offset makes the window start past the end.
C19_UnresolvedRendersFromTop ==
    /\ (Rendered /\ ~Resolves /\ height(Shown[1].item) <= last.area.height) =>
           /\ ShownIndex = 0
           /\ last.start = 0
           /\ last.end >= 1
           /\ state.offset = 0
    /\ (Rendered /\ HeightsWithin(0, last.area.height)) =>
           last.start < Len(Shown)

\* C19's case: a stale selection and an offset past the end of the sequence.
C19_Witness ==
    /\ Rendered
    /\ last.pre.selected # <<>>
    /\ ~Resolves
    /\ last.pre.offset > Len(Shown)
    /\ height(Shown[1].item) <= last.area.height
    /\ last.start = 0
    /\ state.offset = 0

\* C20: a second render pass with the same tree, opened set, selection and
\* area, starting from the offset the first pass stored, stores that offset
\* again.
C20_OffsetFixedPoint ==
    Rendered => render(state, items, last.area).st.offset = state.offset

\* C20's case: the first pass scrolled, the second does not.
C20_Witness ==
    /\ Rendered
    /\ last.pre.offset = 0
    /\ state.offset = 2
    /\ Resolves
    /\ \E i \in 1 .. Len(Shown) : height(Shown[i].item) = 2
    /\ render(state, items, last.area).st.offset = 2

====
